---- MODULE Spec2Model ----
(***************************************************************************)
(* A model of pyflatpak/remote.py: the Remote object, its construction     *)
(* (the user-then-system scope search and the load of the matched          *)
(* section), its property getters and its property setters.                *)
(*                                                                         *)
(* Python strings are sequences of one-character strings, so that the      *)
(* code's substring tests (`name in section`, `'bool' in e.args[-1]`) and  *)
(* str.lower() are computed, not assumed.  A configuration file is what    *)
(* ConfigParser parses it to: a function from section headers to section   *)
(* bodies, a body being a function from (lower-cased) option keys to       *)
(* string values.  The files hold no [DEFAULT] section and no '%' in a     *)
(* value (ConfigParser's interpolation is not modelled).                   *)
(***************************************************************************)
EXTENDS Integers, Sequences, FiniteSets, TLC

VARIABLES
    fs,      \* the file system: path -> parsed content; a path not in DOMAIN fs does not exist
    pc,      \* "new" (no Remote yet), "live" (__init__ returned), "failed" (__init__ raised)
    self,    \* the Remote's instance attributes: attribute name -> value
    opens,   \* the paths handed to open(), in order
    last,    \* the last call made on the object and its outcome
    ncalls   \* number of property reads and writes made on the live object

vars == <<fs, pc, self, opens, last, ncalls>>

----------------------------------------------------------------------------
(* Bounds *)

MaxSections == 2    \* sections in a configuration file of InitScopes
MaxKeys == 2        \* option keys in the section of a file of InitFields
MaxCalls == 2       \* property reads/writes after construction

----------------------------------------------------------------------------
(* Python values and call outcomes *)

PyStr(s) == [type |-> "str", val |-> s]
PyBool(b) == [type |-> "bool", val |-> b]
PyInt(i) == [type |-> "int", val |-> i]
PyNone == [type |-> "NoneType"]

Return(v) == [kind |-> "return", value |-> v]
Raise(e, a) == [kind |-> "raise", exc |-> e, arg |-> a]

\* type(v).__name__, as a string of characters
TypeName(v) ==
    CASE v.type = "str" -> <<"s", "t", "r">>
      [] v.type = "bool" -> <<"b", "o", "o", "l">>
      [] v.type = "int" -> <<"i", "n", "t">>
      [] v.type = "NoneType" -> <<"N", "o", "n", "e", "T", "y", "p", "e">>

\* Python's `a in b` on strings
In(a, b) ==
    \E i \in 0..(Len(b) - Len(a)) : SubSeq(b, i + 1, i + Len(a)) = a

UpperCase == <<"A", "B", "C", "D", "E", "F", "G", "H", "I", "J", "K", "L", "M",
               "N", "O", "P", "Q", "R", "S", "T", "U", "V", "W", "X", "Y", "Z">>
LowerCase == <<"a", "b", "c", "d", "e", "f", "g", "h", "i", "j", "k", "l", "m",
               "n", "o", "p", "q", "r", "s", "t", "u", "v", "w", "x", "y", "z">>

\* str.lower()
lower(s) ==
    [i \in DOMAIN s |->
        IF \E j \in DOMAIN UpperCase : UpperCase[j] = s[i]
        THEN LowerCase[CHOOSE j \in DOMAIN UpperCase : UpperCase[j] = s[i]]
        ELSE s[i]]

\* Python truthiness of a str or None
Truthy(v) == v.type = "str" /\ v.val # <<>>

\* obj.attr = v on the instance dictionary
SetAttr(obj, a, v) == (a :> v) @@ obj

----------------------------------------------------------------------------
(* Paths *)

fp_user_config_path == "~/.local/share/flatpak/repo/config"
fp_sys_config_path == "/var/lib/flatpak/repo/config"

----------------------------------------------------------------------------
(* ConfigParser *)

EmptyConfig == <<>>

\* ConfigParser.read_file: the file's sections are merged into the parser
read_file(config, file) ==
    [h \in (DOMAIN config) \cup (DOMAIN file) |->
        IF h \in DOMAIN file
        THEN (IF h \in DOMAIN config THEN file[h] @@ config[h] ELSE file[h])
        ELSE config[h]]

\* ConfigParser.sections()
sections(config) == DOMAIN config

\* f'remote "{self.name}"'
remote_section(n) == <<"r", "e", "m", "o", "t", "e", " ", "\"">> \o n \o <<"\"">>

----------------------------------------------------------------------------
(* Remote: construction *)

\* Remote.name (getter)
name(obj) == Return(obj._name)

\* A variant of _get_option that parses both files before it searches either.
_get_option_reads_both(obj, files) ==
    LET n == name(obj).value.val
        both == <<fp_user_config_path, fp_sys_config_path>>
    IN
    IF fp_user_config_path \notin DOMAIN files
    THEN [out |-> Raise("FileNotFoundError", fp_user_config_path), obj |-> obj,
          opened |-> <<fp_user_config_path>>]
    ELSE IF fp_sys_config_path \notin DOMAIN files
    THEN [out |-> Raise("FileNotFoundError", fp_sys_config_path), obj |-> obj,
          opened |-> both]
    ELSE IF \E section \in sections(read_file(EmptyConfig, files[fp_user_config_path])) :
               In(n, section)
    THEN [out |-> Return(PyNone),
          obj |-> SetAttr(SetAttr(obj, "config_path", fp_user_config_path),
                          "_option", PyStr(<<"u", "s", "e", "r">>)),
          opened |-> both]
    ELSE IF \E section \in sections(read_file(EmptyConfig, files[fp_sys_config_path])) :
               In(n, section)
    THEN [out |-> Return(PyNone),
          obj |-> SetAttr(SetAttr(obj, "config_path", fp_sys_config_path),
                          "_option", PyStr(<<"s", "y", "s", "t", "e", "m">>)),
          opened |-> both]
    ELSE [out |-> Raise("RemoteError",
                        <<"R", "e", "m", "o", "t", "e", " ", "'">> \o n \o
                        <<"'", " ", "d", "o", "e", "s", "n", "'", "t", " ",
                          "e", "x", "i", "s", "t">>),
          obj |-> obj, opened |-> both]

\* Remote._get_option: user scope first, then system scope; the match is
\* `self.name in section`.  Yields the outcome, the object and the paths opened.
_get_option(obj, files) ==
    LET n == name(obj).value.val IN
    IF fp_user_config_path \notin DOMAIN files
    THEN [out |-> Raise("FileNotFoundError", fp_user_config_path), obj |-> obj,
          opened |-> <<fp_user_config_path>>]
    ELSE
    LET config1 == read_file(EmptyConfig, files[fp_user_config_path]) IN
    IF \E section \in sections(config1) : In(n, section)
    THEN [out |-> Return(PyNone),
          obj |-> SetAttr(SetAttr(obj, "config_path", fp_user_config_path),
                          "_option", PyStr(<<"u", "s", "e", "r">>)),
          opened |-> <<fp_user_config_path>>]
    ELSE
    IF fp_sys_config_path \notin DOMAIN files
    THEN [out |-> Raise("FileNotFoundError", fp_sys_config_path), obj |-> obj,
          opened |-> <<fp_user_config_path, fp_sys_config_path>>]
    ELSE
    LET config2 == read_file(config1, files[fp_sys_config_path]) IN
    IF \E section \in sections(config2) : In(n, section)
    THEN [out |-> Return(PyNone),
          obj |-> SetAttr(SetAttr(obj, "config_path", fp_sys_config_path),
                          "_option", PyStr(<<"s", "y", "s", "t", "e", "m">>)),
          opened |-> <<fp_user_config_path, fp_sys_config_path>>]
    ELSE [out |-> Raise("RemoteError",
                        <<"R", "e", "m", "o", "t", "e", " ", "'">> \o n \o
                        <<"'", " ", "d", "o", "e", "s", "n", "'", "t", " ",
                          "e", "x", "i", "s", "t">>),
          obj |-> obj,
          opened |-> <<fp_user_config_path, fp_sys_config_path>>]

\* Remote._get_config: parse self.config_path again and take the section
\* named exactly remote "NAME".
_get_config(obj, files) ==
    LET n == name(obj).value.val
        obj1 == SetAttr(obj, "_raw_config", EmptyConfig)
    IN
    IF obj.config_path \notin DOMAIN files
    THEN [out |-> Raise("FileNotFoundError", obj.config_path), obj |-> obj1,
          opened |-> <<obj.config_path>>]
    ELSE
    LET raw == read_file(EmptyConfig, files[obj.config_path])
        obj2 == SetAttr(obj, "_raw_config", raw)
    IN
    IF remote_section(n) \notin sections(raw)
    THEN [out |-> Raise("KeyError", remote_section(n)), obj |-> obj2,
          opened |-> <<obj.config_path>>]
    ELSE [out |-> Return(PyNone),
          obj |-> SetAttr(obj2, "config", raw[remote_section(n)]),
          opened |-> <<obj.config_path>>]

\* Remote.__init__
__init__(n, files) ==
    LET obj0 == SetAttr(<<>>, "_name", PyStr(n))
        r1 == _get_option(obj0, files)
    IN
    IF r1.out.kind = "raise" THEN r1
    ELSE LET r2 == _get_config(r1.obj, files) IN
         [out |-> r2.out, obj |-> r2.obj, opened |-> r1.opened \o r2.opened]

----------------------------------------------------------------------------
(* Remote: property getters.  Each yields Return(value) or Raise(exc, arg). *)

\* SectionProxy.__getitem__: self.config[key]
getitem(config, key) ==
    IF key \in DOMAIN config THEN Return(PyStr(config[key]))
    ELSE Raise("KeyError", key)

\* try: <r> except <exc>: return <default>
TryExcept(r, exc, default) ==
    IF r.kind = "raise" /\ r.exc = exc THEN Return(default) ELSE r

\* A variant of title that also falls back to the name on an empty xa.title.
title_nonempty(obj) ==
    LET r == getitem(obj.config, "xa.title") IN
    IF r.kind = "raise" \/ r.value.val = <<>> THEN name(obj) ELSE r

\* Remote.title (getter)
title(obj) ==
    LET r == getitem(obj.config, "xa.title") IN
    IF r.kind = "raise" /\ r.exc = "KeyError" THEN name(obj) ELSE r

\* Remote.url (getter)
url(obj) == getitem(obj.config, "url")

\* Remote.option (getter)
option(obj) == Return(obj._option)

\* Remote.comment (getter)
comment(obj) == TryExcept(getitem(obj.config, "xa.comment"), "KeyError", PyNone)

\* Remote.description (getter)
description(obj) == TryExcept(getitem(obj.config, "xa.description"), "KeyError", PyNone)

\* Remote.icon (getter)
icon(obj) == TryExcept(getitem(obj.config, "xa.icon"), "KeyError", PyNone)

\* Remote.homepage (getter): the handler catches AttributeError
homepage(obj) == TryExcept(getitem(obj.config, "xa.homepage"), "AttributeError", PyNone)

\* A variant of about that tests `is not None` instead of truthiness.
about_not_none(obj) ==
    IF comment(obj).value # PyNone THEN comment(obj)
    ELSE IF description(obj).value # PyNone THEN description(obj)
    ELSE name(obj)

\* Remote.about (getter)
about(obj) ==
    LET c == comment(obj) IN
    IF c.kind = "raise" THEN c
    ELSE IF Truthy(c.value) THEN comment(obj)
    ELSE LET d == description(obj) IN
         IF d.kind = "raise" THEN d
         ELSE IF Truthy(d.value) THEN description(obj)
         ELSE name(obj)

\* A variant of enabled that compares without lower().
enabled_case_sensitive(obj) ==
    LET r == getitem(obj.config, "xa.disable") IN
    IF r.kind = "raise"
    THEN TryExcept(r, "KeyError", PyBool(TRUE))
    ELSE Return(PyBool(r.value.val \in
                    {<<"f", "a", "l", "s", "e">>, <<"n", "o">>, <<"0">>}))

\* Remote.enabled (getter)
enabled(obj) ==
    LET r == getitem(obj.config, "xa.disable") IN
    IF r.kind = "raise"
    THEN TryExcept(r, "KeyError", PyBool(TRUE))
    ELSE Return(PyBool(lower(r.value.val) \in
                    {<<"f", "a", "l", "s", "e">>, <<"n", "o">>, <<"0">>}))

----------------------------------------------------------------------------
(* Remote: property setters.  Each yields the outcome and the object. *)

\* A variant of the name setter that assigns.
set_name_assigns(obj, v) == [out |-> Return(PyNone), obj |-> SetAttr(obj, "_name", v)]

\* Remote.name (setter)
set_name(obj, v) == [out |-> Raise("RemoteError", "Cannot set name: property is read-only"), obj |-> obj]

\* Remote.option (setter)
set_option(obj, v) == [out |-> Raise("RemoteError", "Cannot set option: property is read-only"), obj |-> obj]

\* A variant of the title setter that writes through to the parsed section.
set_title_writes_config(obj, v) ==
    [out |-> Return(PyNone),
     obj |-> SetAttr(obj, "config", ("xa.title" :> v.val) @@ obj.config)]

\* Remote.title (setter)
set_title(obj, v) == [out |-> Return(PyNone), obj |-> SetAttr(obj, "_title", v)]

\* Remote.url (setter)
set_url(obj, v) == [out |-> Return(PyNone), obj |-> SetAttr(obj, "_url", v)]

\* Remote.comment (setter)
set_comment(obj, v) == [out |-> Return(PyNone), obj |-> SetAttr(obj, "_comment", v)]

\* Remote.description (setter)
set_description(obj, v) ==
    [out |-> Return(PyNone), obj |-> SetAttr(obj, "_description", v)]

\* Remote.icon (setter)
set_icon(obj, v) == [out |-> Return(PyNone), obj |-> SetAttr(obj, "_icon", v)]

\* Remote.homepage (setter)
set_homepage(obj, v) == [out |-> Return(PyNone), obj |-> SetAttr(obj, "_homepage", v)]

\* Remote.enabled (setter): a str is lowered, tested and assigned back to
\* self.enabled (the setter again); anything else has no .lower(), and the
\* AttributeError's message decides what is stored.
RECURSIVE set_enabled(_, _)
set_enabled(obj, v) ==
    IF v.type = "str"
    THEN set_enabled(obj, PyBool(lower(v.val) \in
                        {<<"t", "r", "u", "e">>, <<"y", "e", "s">>, <<"1">>}))
    ELSE LET e_args == <<"'">> \o TypeName(v) \o
                       <<"'", " ", "o", "b", "j", "e", "c", "t", " ", "h", "a",
                         "s", " ", "n", "o", " ", "a", "t", "t", "r", "i", "b",
                         "u", "t", "e", " ", "'", "l", "o", "w", "e", "r", "'">>
         IN
         IF In(<<"b", "o", "o", "l">>, e_args)
         THEN [out |-> Return(PyNone), obj |-> SetAttr(obj, "_enabled", v)]
         ELSE [out |-> Return(PyNone), obj |-> SetAttr(obj, "_enabled", PyBool(TRUE))]

----------------------------------------------------------------------------
(* The environment: remote names asked for, and configuration files *)

foo == <<"f", "o", "o">>
foobar == <<"f", "o", "o", "b", "a", "r">>
bar == <<"b", "a", "r">>
ore == <<"o", "r", "e">>
core == <<"c", "o", "r", "e">>

\* the names Remote() is constructed with
Names == {foo, foobar, bar, ore}

\* the section headers a file may hold: two remotes and flatpak's [core]
Headers == {remote_section(foo), remote_section(foobar), core}

Keys == {"url", "xa.title", "xa.comment", "xa.description", "xa.icon",
         "xa.homepage", "xa.disable"}

Values(k) ==
    CASE k = "url" -> {<<"h", "t", "t", "p", "s", ":", "/", "/", "r">>}
      [] k = "xa.title" -> {<<>>, <<"M", "y", " ", "R", "e", "p", "o">>}
      [] k = "xa.comment" -> {<<>>, <<"F", "a", "s", "t">>}
      [] k = "xa.description" -> {<<>>, <<"F", "u", "l", "l">>}
      [] k = "xa.icon" -> {<<"i", ".", "s", "v", "g">>}
      [] k = "xa.homepage" -> {<<"h", "t", "t", "p", "s", ":", "/", "/", "h">>}
      [] k = "xa.disable" -> {<<>>, <<"t", "r", "u", "e">>, <<"F", "a", "l", "s", "e">>,
                              <<"N", "O">>, <<"0">>}

\* the section bodies with at most MaxKeys keys
Bodies ==
    UNION {{b \in [K -> UNION {Values(k) : k \in K}] : \A k \in K : b[k] \in Values(k)} :
           K \in {K \in SUBSET Keys : Cardinality(K) <= MaxKeys}}

\* a well-formed remote section: only the url
UrlBody == [k \in {"url"} |-> <<"h", "t", "t", "p", "s", ":", "/", "/", "r">>]

\* files that differ in which sections they hold
ScopeFiles ==
    UNION {[S -> {UrlBody}] : S \in {S \in SUBSET Headers : Cardinality(S) <= MaxSections}}

\* files that differ in what the section remote "foo" holds
FieldFiles == {[h \in {remote_section(foo)} |-> b] : b \in Bodies}

\* an optional file: no file, or one of X
Opt(X) == {{}} \cup {{x} : x \in X}

\* the file system with the user file U and the system file S (each optional)
FsOf(U, S) ==
    [p \in {q \in {fp_user_config_path, fp_sys_config_path} :
               IF q = fp_user_config_path THEN U # {} ELSE S # {}} |->
        IF p = fp_user_config_path THEN CHOOSE f \in U : TRUE ELSE CHOOSE f \in S : TRUE]

InitScopes == \E U \in Opt(ScopeFiles), S \in Opt(ScopeFiles) : fs = FsOf(U, S)

InitFields == \E f \in FieldFiles : fs = FsOf({f}, {})

Init ==
    /\ InitScopes \/ InitFields
    /\ pc = "new"
    /\ self = <<>>
    /\ opens = <<>>
    /\ last = [op |-> "none"]
    /\ ncalls = 0

----------------------------------------------------------------------------
(* Actions *)

\* r = Remote(n)
Construct ==
    /\ pc = "new"
    /\ \E n \in Names :
        LET r == __init__(n, fs) IN
        /\ pc' = IF r.out.kind = "raise" THEN "failed" ELSE "live"
        /\ self' = r.obj
        /\ opens' = opens \o r.opened
        /\ last' = [op |-> "__init__", out |-> r.out]
    /\ UNCHANGED <<fs, ncalls>>

\* a property read on the live object
Read(op, r) ==
    /\ pc = "live"
    /\ ncalls < MaxCalls
    /\ last' = [op |-> op, out |-> r]
    /\ ncalls' = ncalls + 1
    /\ UNCHANGED <<fs, pc, self, opens>>

\* a property write on the live object
Write(op, r) ==
    /\ pc = "live"
    /\ ncalls < MaxCalls
    /\ self' = r.obj
    /\ last' = [op |-> op, out |-> r.out]
    /\ ncalls' = ncalls + 1
    /\ UNCHANGED <<fs, pc, opens>>

StrArgs == {PyStr(<<"x">>)}
EnabledArgs == {PyStr(<<"T", "r", "u", "e">>), PyStr(<<"n", "o">>), PyBool(FALSE), PyInt(0)}

GetName == Read("name", name(self))
GetTitle == Read("title", title(self))
GetUrl == Read("url", url(self))
GetOption == Read("option", option(self))
GetAbout == Read("about", about(self))
GetComment == Read("comment", comment(self))
GetDescription == Read("description", description(self))
GetIcon == Read("icon", icon(self))
GetHomepage == Read("homepage", homepage(self))
GetEnabled == Read("enabled", enabled(self))

SetName == \E v \in StrArgs : Write("name=", set_name(self, v))
SetOption == \E v \in StrArgs : Write("option=", set_option(self, v))
SetTitle == \E v \in StrArgs : Write("title=", set_title(self, v))
SetUrl == \E v \in StrArgs : Write("url=", set_url(self, v))
SetComment == \E v \in StrArgs : Write("comment=", set_comment(self, v))
SetDescription == \E v \in StrArgs : Write("description=", set_description(self, v))
SetIcon == \E v \in StrArgs : Write("icon=", set_icon(self, v))
SetHomepage == \E v \in StrArgs : Write("homepage=", set_homepage(self, v))
SetEnabled == \E v \in EnabledArgs : Write("enabled=", set_enabled(self, v))

Next ==
    \/ Construct
    \/ GetName \/ GetTitle \/ GetUrl \/ GetOption \/ GetAbout
    \/ GetComment \/ GetDescription \/ GetIcon \/ GetHomepage \/ GetEnabled
    \/ SetName \/ SetOption \/ SetTitle \/ SetUrl \/ SetComment
    \/ SetDescription \/ SetIcon \/ SetHomepage \/ SetEnabled

Spec == Init /\ [][Next]_vars

----------------------------------------------------------------------------
(* Vocabulary of the properties *)

\* the name Remote() was called with
Requested == self._name.val

\* the user (system) file exists and holds the section remote "n"
UserHas(n) ==
    /\ fp_user_config_path \in DOMAIN fs
    /\ remote_section(n) \in DOMAIN fs[fp_user_config_path]
SysHas(n) ==
    /\ fp_sys_config_path \in DOMAIN fs
    /\ remote_section(n) \in DOMAIN fs[fp_sys_config_path]

\* what every getter yields on obj
Getters(obj) ==
    [name |-> name(obj), title |-> title(obj), url |-> url(obj),
     option |-> option(obj), about |-> about(obj), comment |-> comment(obj),
     description |-> description(obj), icon |-> icon(obj),
     homepage |-> homepage(obj), enabled |-> enabled(obj)]

\* the step is a call of one of the setters in ops
Called(ops) == ncalls' = ncalls + 1 /\ last'.op \in ops

----------------------------------------------------------------------------
(* Scope resolution *)

\* C1: a remote whose section is in the user file is constructed with
\* option 'user' and config_path the user file, and the system file is never
\* opened, whatever the system scope holds (or if it does not exist).
C1_UserScopeWins ==
    (pc # "new" /\ UserHas(Requested)) =>
        /\ pc = "live"
        /\ option(self) = Return(PyStr(<<"u", "s", "e", "r">>))
        /\ self.config_path = fp_user_config_path
        /\ \A i \in DOMAIN opens : opens[i] # fp_sys_config_path

\* C1's case: constructed, the name in the user file and in the system file too
C1_Witness ==
    /\ pc = "live"
    /\ UserHas(Requested)
    /\ SysHas(Requested)
    /\ last.op = "__init__"

\* C2: a remote whose section is not in the (existing) user file but is in
\* the system file is constructed with option 'system' and config_path the
\* system file, whatever other sections the user file holds.
C2_SystemScopeFound ==
    (/\ pc # "new"
     /\ fp_user_config_path \in DOMAIN fs
     /\ ~UserHas(Requested)
     /\ SysHas(Requested)) =>
        /\ pc = "live"
        /\ option(self) = Return(PyStr(<<"s", "y", "s", "t", "e", "m">>))
        /\ self.config_path = fp_sys_config_path

\* C3: with both files readable and the remote's section in neither,
\* construction fails with RemoteError carrying the requested name, and with
\* no other error.
C3_NotFoundError ==
    (/\ pc # "new"
     /\ fp_user_config_path \in DOMAIN fs
     /\ fp_sys_config_path \in DOMAIN fs
     /\ ~UserHas(Requested)
     /\ ~SysHas(Requested)) =>
        /\ pc = "failed"
        /\ last.op = "__init__"
        /\ last.out = Raise("RemoteError",
                            <<"R", "e", "m", "o", "t", "e", " ", "'">> \o Requested \o
                            <<"'", " ", "d", "o", "e", "s", "n", "'", "t", " ",
                              "e", "x", "i", "s", "t">>)

\* C4: no Remote is returned whose section has no url key (construction
\* fails instead).
C4_NoRemoteWithoutUrl ==
    pc = "live" => "url" \in DOMAIN self.config

----------------------------------------------------------------------------
(* Properties of the getters and setters *)

\* C5: on a constructed Remote, name and option never change, and every
\* attempt to assign name or option raises the read-only RemoteError and
\* leaves the object, and so every getter, as it was.
C5_ReadOnly ==
    [][pc = "live" =>
        /\ name(self') = name(self)
        /\ option(self') = option(self)
        /\ Called({"name="}) =>
              last'.out = Raise("RemoteError", "Cannot set name: property is read-only")
        /\ Called({"option="}) =>
              last'.out = Raise("RemoteError", "Cannot set option: property is read-only")
        /\ Called({"name=", "option="}) =>
              self' = self /\ Getters(self') = Getters(self)]_vars

\* C5's case: an assignment to name refused after another setter ran
C5_Witness ==
    /\ pc = "live"
    /\ last.op = "name="
    /\ last.out.kind = "raise"
    /\ "_title" \in DOMAIN self

\* C6: enabled is a boolean and never raises: True when xa.disable is
\* missing, True when its lowercased value is 'false', 'no' or '0', False for
\* any other value.
C6_Enabled ==
    last.op = "enabled" =>
        last.out = Return(PyBool(
            \/ "xa.disable" \notin DOMAIN self.config
            \/ lower(self.config["xa.disable"]) \in
                   {<<"f", "a", "l", "s", "e">>, <<"n", "o">>, <<"0">>}))

\* C6's cases: xa.disable=true read as not enabled, xa.disable=False as enabled
C6_Witness ==
    /\ last.op = "enabled"
    /\ "xa.disable" \in DOMAIN self.config
    /\ \/ /\ self.config["xa.disable"] = <<"t", "r", "u", "e">>
          /\ last.out = Return(PyBool(FALSE))
       \/ /\ self.config["xa.disable"] = <<"F", "a", "l", "s", "e">>
          /\ last.out = Return(PyBool(TRUE))

\* C7: comment, description, icon and homepage each return the value of
\* their xa.* key when it is present and None, without raising, when it is
\* missing.
C7_OptionalFields ==
    \A a \in {"comment", "description", "icon", "homepage"} :
        last.op = a =>
            LET key == "xa." \o a IN
            last.out = IF key \in DOMAIN self.config
                       THEN Return(PyStr(self.config[key]))
                       ELSE Return(PyNone)

\* C8 as claimed: title is xa.title when present and non-empty, the name
\* otherwise, and so never the empty string.
C8_TitleNonEmptyOrName ==
    last.op = "title" =>
        /\ last.out = IF /\ "xa.title" \in DOMAIN self.config
                         /\ self.config["xa.title"] # <<>>
                      THEN Return(PyStr(self.config["xa.title"]))
                      ELSE Return(self._name)
        /\ last.out.value.val # <<>>

\* C8 amended: title is xa.title whenever the key is present, its empty
\* value included, and the name only when the key is missing.
C8_TitleKeyOrName ==
    last.op = "title" =>
        last.out = IF "xa.title" \in DOMAIN self.config
                   THEN Return(PyStr(self.config["xa.title"]))
                   ELSE Return(self._name)

\* C8's case: xa.title present and empty, title read as the empty string
C8_Witness ==
    /\ last.op = "title"
    /\ "xa.title" \in DOMAIN self.config
    /\ self.config["xa.title"] = <<>>
    /\ last.out = Return(PyStr(<<>>))

\* C9: about never raises and is the first non-empty of xa.comment,
\* xa.description and the name.
C9_About ==
    last.op = "about" =>
        last.out =
            IF "xa.comment" \in DOMAIN self.config /\ self.config["xa.comment"] # <<>>
            THEN Return(PyStr(self.config["xa.comment"]))
            ELSE IF /\ "xa.description" \in DOMAIN self.config
                    /\ self.config["xa.description"] # <<>>
            THEN Return(PyStr(self.config["xa.description"]))
            ELSE Return(self._name)

\* C9's case: an empty comment skipped for a non-empty description
C9_Witness ==
    /\ last.op = "about"
    /\ "xa.comment" \in DOMAIN self.config
    /\ self.config["xa.comment"] = <<>>
    /\ "xa.description" \in DOMAIN self.config
    /\ last.out = Return(PyStr(self.config["xa.description"]))
    /\ last.out.value.val # <<>>

WritableSetters ==
    {"title=", "url=", "comment=", "description=", "icon=", "homepage=", "enabled="}

\* C10: a call of a writable setter returns without error, changes what no
\* getter yields and does not write the configuration files; so from
\* construction on every getter keeps yielding what it yielded first.
C10_SettersInert ==
    [][pc = "live" =>
        /\ Getters(self') = Getters(self)
        /\ fs' = fs
        /\ Called(WritableSetters) => last'.out = Return(PyNone)]_vars

\* C10's case: two writable setters have run, the last one enabled's
C10_Witness ==
    /\ pc = "live"
    /\ last.op = "enabled="
    /\ last.out = Return(PyNone)
    /\ "_title" \in DOMAIN self
    /\ "_enabled" \in DOMAIN self

====
